---- MODULE Spec2Model ----
(***************************************************************************)
(* The per-request session registry of registry.go: attaching a Registry   *)
(* to a context, looking it up, Registry.Get (memoized creation) and       *)
(* Registry.Save (best-effort batch persistence).                          *)
(*                                                                         *)
(* Pointers are modelled as indices: a *Registry is an index into          *)
(* `registries`, a *Session an index into `heap`; index 0 is the nil       *)
(* pointer.  A context is the sequence of the (key, value) pairs that      *)
(* context.WithValue has put on it, oldest first.                          *)
(***************************************************************************)
EXTENDS Integers, Sequences, FiniteSets, TLC

\* ------------------------------------------------------------------ bounds
MaxSessions == 2
MaxCtxDepth == 2
MaxNewCalls == 2

\* ------------------------------------------------------------- the inputs
\* Cookie names are sequences of characters.
ValidNames == {<<"a">>, <<"b">>}
InvalidNames == {<<"a", ";">>}
Names == ValidNames \cup InvalidNames

Requests == {"req1", "req2"}

\* Stores that honour the Store contract (New returns a non-nil session).
ContractStores == {"storeA", "storeB"}
\* A store whose New returns a nil session.
EmptyStore == "storeEmpty"
NilStore == "nil"

NoErr == "nil"
\* The error a store's New returns when it fails: each store has its own.
CreateErr(store) ==
    CASE store = "storeA" -> "errNewA"
      [] store = "storeB" -> "errNewB"
      [] OTHER -> "errNewEmpty"
ErrInvalidName == "sessions: invalid character in cookie name"

NilSession == 0
NilRegistry == 0

VARIABLES
    threads,     \* per goroutine inside a Get: where it is and its locals
    requests,    \* the requests in flight
    stores,      \* the Store implementations the callers of Get hold
    contextOf,   \* per request: its context, r.Context()
    registries,  \* the Registry objects: <<[request, sessions]>>
    heap,        \* the Session objects: <<[name, store]>>
    newLog,      \* per (registry, name): the pairs Store.New has returned
    got,         \* per (registry, name): the pairs Get has returned
    lastStore,   \* per (registry, name): the store of the latest Get that returned
    last         \* the latest call and its outcome

vars == <<threads, requests, stores, contextOf, registries, heap, newLog, got, lastStore, last>>

\* ---------------------------------------------------------------- contexts
registryKey == [type |-> "registryKeyType", v |-> 0]
ForeignKey == [type |-> "int", v |-> 0]

NilValue == [type |-> "nil", ptr |-> 0]
ForeignValue == [type |-> "int", ptr |-> 1]
RegistryPtr(i) == [type |-> "*Registry", ptr |-> i]

Background == <<>>

WithValue(ctx, key, val) == Append(ctx, [key |-> key, val |-> val])

RECURSIVE ValueFrom(_, _, _)
ValueFrom(ctx, key, i) ==
    IF i = 0 THEN NilValue
    ELSE IF ctx[i].key = key THEN ctx[i].val
    ELSE ValueFrom(ctx, key, i - 1)

\* ctx.Value(key): the value of the innermost pair with that key, else nil.
Value(ctx, key) == ValueFrom(ctx, key, Len(ctx))

RegistryFromContextShared(ctx) ==
    LET v == Value(ctx, registryKey) IN
    IF v = NilValue THEN NilRegistry
    ELSE IF v.type = "*Registry" /\ v.ptr # NilRegistry THEN 1
    ELSE NilRegistry

RegistryFromContextNoTypeCheck(ctx) ==
    LET v == Value(ctx, registryKey) IN
    IF v = NilValue THEN NilRegistry ELSE v.ptr

RegistryFromContext(ctx) ==
    LET v == Value(ctx, registryKey) IN
    IF v = NilValue THEN NilRegistry
    ELSE IF v.type = "*Registry" THEN v.ptr
    ELSE NilRegistry

\* ------------------------------------------------------------- the record
NoCall ==
    [op |-> "none", ctx |-> Background, newctx |-> Background, req |-> "none",
     reg |-> NilRegistry,
     store |-> NilStore, name |-> <<>>, s |-> NilSession, e |-> NoErr,
     out |-> "none", visited |-> <<>>, calls |-> <<>>, errs |-> <<>>,
     new |-> <<>>, again |-> FALSE]

\* The goroutines that may be inside a Get at the same time.
Threads == {"t1", "t2"}

Idle ==
    [pc |-> "idle", req |-> "none", reg |-> NilRegistry, store |-> NilStore,
     name |-> <<>>, s |-> NilSession, e |-> NoErr, new |-> <<>>]

\* Every attachment that makes a Registry lengthens a request's context.
RegistryIds == 1..(Cardinality(Requests) * MaxCtxDepth)
Keys == RegistryIds \X Names

EmptySessions == [n \in {} |-> [s |-> NilSession, e |-> NoErr]]

Init ==
    /\ requests = {"req1"}
    /\ stores = ContractStores
    /\ contextOf = [r \in Requests |-> Background]
    /\ registries = <<>>
    /\ heap = <<>>
    /\ newLog = [k \in Keys |-> <<>>]
    /\ got = [k \in Keys |-> {}]
    /\ lastStore = [k \in Keys |-> "none"]
    /\ last = NoCall
    /\ threads = [t \in Threads |-> Idle]

\* ------------------------------------------------------------- attachment
\* Code outside the package derives the request's context with a key and a
\* value of its own.
ForeignWithValue(r) ==
    /\ Len(contextOf[r]) < MaxCtxDepth
    /\ contextOf' = [contextOf EXCEPT ![r] = WithValue(@, ForeignKey, ForeignValue)]
    /\ last' = [NoCall EXCEPT !.op = "WithValue", !.ctx = contextOf[r],
                              !.newctx = contextOf'[r], !.out = "return"]
    /\ UNCHANGED <<threads, requests, stores, registries, heap, newLog, got, lastStore>>

AlreadyAttachedNever(c) == FALSE

\* Whether ContextWithRegistry returns the context it was given.
AlreadyAttached(c) == RegistryFromContext(c) # NilRegistry

NewRegistry(q) == [request |-> q, sessions |-> EmptySessions]

\* ContextWithRegistry(r.Context(), q), the result made r's context.
ContextWithRegistry(r, q) ==
    LET c == contextOf[r] IN
    IF AlreadyAttached(c) THEN
        /\ last' = [NoCall EXCEPT !.op = "ContextWithRegistry", !.ctx = c, !.req = q,
                                  !.newctx = c, !.out = "return"]
        /\ UNCHANGED <<threads, requests, stores, contextOf, registries, heap, newLog, got, lastStore>>
    ELSE
        /\ Len(c) < MaxCtxDepth
        /\ registries' = Append(registries, NewRegistry(q))
        /\ contextOf' = [contextOf EXCEPT ![r] = WithValue(c, registryKey, RegistryPtr(Len(registries')))]
        /\ last' = [NoCall EXCEPT !.op = "ContextWithRegistry", !.ctx = c, !.req = q,
                                  !.newctx = contextOf'[r], !.out = "return"]
        /\ UNCHANGED <<threads, requests, stores, heap, newLog, got, lastStore>>

\* A caller's RegistryFromContext(r.Context()).
Lookup(r) ==
    /\ last' = [NoCall EXCEPT !.op = "RegistryFromContext", !.ctx = contextOf[r],
                              !.newctx = contextOf[r],
                              !.reg = RegistryFromContext(contextOf[r]), !.out = "return"]
    /\ UNCHANGED <<threads, requests, stores, contextOf, registries, heap, newLog, got, lastStore>>

\* -------------------------------------------------------------- the names
\* The characters a cookie name may not hold.
Separators ==
    {"(", ")", "<", ">", "@", ",", ";", ":", "\\", "\"", "/", "[", "]", "?",
     "=", "{", "}", " ", "\t"}

isToken(ch) == ch \notin Separators

isCookieNameValid(name) == \A i \in 1..Len(name) : isToken(name[i])

\* -------------------------------------------------------------- the stores
\* Store.New(request, name): what a store may return.  A session it makes is
\* a new object; the store fills its name with the requested name or leaves
\* it empty.
StoreNew(store, name) ==
    IF store = EmptyStore
    THEN {[s |-> "nil", e |-> CreateErr(store), name |-> <<>>]}
    ELSE {[s |-> "new", e |-> e, name |-> n] :
             e \in {NoErr, CreateErr(store)}, n \in {name, <<>>}}

ErrSave == "errSave"

\* ------------------------------------------------------------ Registry.Get
RegisteredNever(sessions, name) == FALSE

\* info, ok := s.sessions[name]
Registered(sessions, name) == name \in DOMAIN sessions

CachedPairNoError(info) == [s |-> info.s, e |-> NoErr]

\* session, err = info.s, info.e
CachedPair(info) == [s |-> info.s, e |-> info.e]

SetNameKeep(session, name) == session

\* session.name = name
SetName(session, name) == [session EXCEPT !.name = name]

RecordInfoAlone(sessions, name, session, err) ==
    [n \in {name} |-> [s |-> session, e |-> err]]

RecordInfoNoError(sessions, name, session, err) ==
    [n \in DOMAIN sessions \cup {name} |->
        IF n = name THEN [s |-> session, e |-> NoErr] ELSE sessions[n]]

\* s.sessions[name] = sessionInfo{s: session, e: err}
RecordInfo(sessions, name, session, err) ==
    [n \in DOMAIN sessions \cup {name} |->
        IF n = name THEN [s |-> session, e |-> err] ELSE sessions[n]]

SetStoreNever(session, store) == session

SetStoreOnlyIfNil(session, store) ==
    IF session.store = NilStore THEN [session EXCEPT !.store = store] ELSE session

\* session.store = store
SetStore(session, store) == [session EXCEPT !.store = store]

NameRejectedNever(name) == FALSE

\* if !isCookieNameValid(name)
NameRejected(name) == ~isCookieNameValid(name)

GetCall(reg, store, name) ==
    [NoCall EXCEPT !.op = "Get", !.reg = reg, !.store = store, !.name = name]

\* RegistryFromContext(r.Context()).Get(store, name)
Get(r, store, name) ==
    LET reg == RegistryFromContext(contextOf[r])
        k == <<reg, name>>
        call == [GetCall(reg, store, name) EXCEPT !.req = r]
    IN
    IF NameRejected(name) THEN
        /\ last' = [call EXCEPT !.e = ErrInvalidName, !.out = "return"]
        /\ UNCHANGED <<threads, requests, stores, contextOf, registries, heap, newLog, got, lastStore>>
    ELSE IF reg = NilRegistry THEN
        \* s.sessions on a nil *Registry
        /\ last' = [call EXCEPT !.out = "panic"]
        /\ UNCHANGED <<threads, requests, stores, contextOf, registries, heap, newLog, got, lastStore>>
    ELSE IF Registered(registries[reg].sessions, name) THEN
        LET pair == CachedPair(registries[reg].sessions[name]) IN
        /\ heap' = [heap EXCEPT ![pair.s] = SetStore(@, store)]
        /\ got' = [got EXCEPT ![k] = @ \cup {pair}]
        /\ lastStore' = [lastStore EXCEPT ![k] = store]
        /\ last' = [call EXCEPT !.s = pair.s, !.e = pair.e, !.out = "return"]
        /\ UNCHANGED <<threads, requests, stores, contextOf, registries, newLog>>
    ELSE IF store = NilStore THEN
        \* store.New on a nil Store
        /\ last' = [call EXCEPT !.out = "panic"]
        /\ UNCHANGED <<threads, requests, stores, contextOf, registries, heap, newLog, got, lastStore>>
    ELSE
        /\ Len(heap) < MaxSessions
        /\ Len(newLog[k]) < MaxNewCalls
        /\ \E res \in StoreNew(store, name) :
            IF res.s = "nil" THEN
                \* session.name on a nil *Session
                /\ newLog' = [newLog EXCEPT ![k] = Append(@, [s |-> NilSession, e |-> res.e, store |-> store])]
                /\ last' = [call EXCEPT !.out = "panic"]
                /\ UNCHANGED <<threads, requests, stores, contextOf, registries, heap, got, lastStore>>
            ELSE
                LET session == Len(heap) + 1
                    made == [name |-> res.name, store |-> NilStore]
                IN
                /\ newLog' = [newLog EXCEPT ![k] = Append(@, [s |-> session, e |-> res.e, store |-> store])]
                /\ heap' = Append(heap, SetStore(SetName(made, name), store))
                /\ registries' = [registries EXCEPT ![reg].sessions =
                                      RecordInfo(@, name, session, res.e)]
                /\ got' = [got EXCEPT ![k] = @ \cup {[s |-> session, e |-> res.e]}]
                /\ lastStore' = [lastStore EXCEPT ![k] = store]
                /\ last' = [call EXCEPT !.s = session, !.e = res.e, !.out = "return",
                                        !.new = <<[name |-> res.name]>>]
                /\ UNCHANGED <<threads, requests, stores, contextOf>>

\* ------------------------------------------- Registry.Get, statement by statement
\* Get takes no lock: between the statements of one goroutine's Get another
\* goroutine may run its own.  A fatal error of the runtime ends them all.
Alive == \A t \in Threads : threads[t].pc # "fatal"

\* Lines 71-75: the name is checked and looked up in the map.
GetBegin(t, r, store, name) ==
    LET reg == RegistryFromContext(contextOf[r])
        call == [GetCall(reg, store, name) EXCEPT !.req = r]
        mine == [Idle EXCEPT !.req = r, !.reg = reg, !.store = store, !.name = name]
    IN
    /\ threads[t].pc = "idle"
    /\ IF NameRejected(name) THEN
           /\ last' = [call EXCEPT !.e = ErrInvalidName, !.out = "return"]
           /\ UNCHANGED threads
       ELSE IF reg = NilRegistry THEN
           /\ last' = [call EXCEPT !.out = "panic"]
           /\ UNCHANGED threads
       ELSE IF Registered(registries[reg].sessions, name) THEN
           LET pair == CachedPair(registries[reg].sessions[name]) IN
           /\ threads' = [threads EXCEPT ![t] =
                              [mine EXCEPT !.pc = "store", !.s = pair.s, !.e = pair.e]]
           /\ UNCHANGED last
       ELSE
           /\ threads' = [threads EXCEPT ![t] = [mine EXCEPT !.pc = "new"]]
           /\ UNCHANGED last
    /\ UNCHANGED <<requests, stores, contextOf, registries, heap, newLog, got, lastStore>>

\* Lines 77-78: the store makes a session and the session is named.
GetNew(t) ==
    LET me == threads[t]
        k == <<me.reg, me.name>>
        call == [GetCall(me.reg, me.store, me.name) EXCEPT !.req = me.req]
    IN
    /\ me.pc = "new"
    /\ IF me.store = NilStore THEN
           /\ last' = [call EXCEPT !.out = "panic"]
           /\ threads' = [threads EXCEPT ![t] = Idle]
           /\ UNCHANGED <<heap, newLog>>
       ELSE
           /\ Len(heap) < MaxSessions
           /\ Len(newLog[k]) < MaxNewCalls
           /\ \E res \in StoreNew(me.store, me.name) :
                  IF res.s = "nil" THEN
                      /\ newLog' = [newLog EXCEPT ![k] =
                             Append(@, [s |-> NilSession, e |-> res.e, store |-> me.store])]
                      /\ last' = [call EXCEPT !.out = "panic"]
                      /\ threads' = [threads EXCEPT ![t] = Idle]
                      /\ UNCHANGED heap
                  ELSE
                      LET session == Len(heap) + 1
                          made == [name |-> res.name, store |-> NilStore]
                      IN
                      /\ newLog' = [newLog EXCEPT ![k] =
                             Append(@, [s |-> session, e |-> res.e, store |-> me.store])]
                      /\ heap' = Append(heap, SetName(made, me.name))
                      /\ threads' = [threads EXCEPT ![t] =
                             [me EXCEPT !.pc = "record", !.s = session, !.e = res.e,
                                        !.new = <<[name |-> res.name]>>]]
                      /\ UNCHANGED last
    /\ UNCHANGED <<requests, stores, contextOf, registries, got, lastStore>>

\* Line 79: the pair is written to the map, over the pair another goroutine
\* may have written for the name since this one looked it up.
GetRecord(t) ==
    LET me == threads[t] IN
    /\ me.pc = "record"
    /\ registries' = [registries EXCEPT ![me.reg].sessions =
                          RecordInfo(@, me.name, me.s, me.e)]
    /\ threads' = [threads EXCEPT ![t].pc = "store"]
    /\ UNCHANGED <<requests, stores, contextOf, heap, newLog, got, lastStore, last>>

\* Line 79 while another goroutine writes the same map: the runtime may stop
\* the program with "fatal error: concurrent map writes".
GetRecordRace(t) ==
    LET me == threads[t] IN
    /\ me.pc = "record"
    /\ \E u \in Threads \ {t} : threads[u].pc = "record" /\ threads[u].reg = me.reg
    /\ threads' = [u \in Threads |-> [threads[u] EXCEPT !.pc = "fatal"]]
    /\ last' = [GetCall(me.reg, me.store, me.name) EXCEPT !.req = me.req, !.out = "fatal"]
    /\ UNCHANGED <<requests, stores, contextOf, registries, heap, newLog, got, lastStore>>

\* Lines 81-82: the session's store is set and the pair is returned.
GetFinish(t) ==
    LET me == threads[t]
        k == <<me.reg, me.name>>
    IN
    /\ me.pc = "store"
    /\ heap' = [heap EXCEPT ![me.s] = SetStore(@, me.store)]
    /\ got' = [got EXCEPT ![k] = @ \cup {[s |-> me.s, e |-> me.e]}]
    /\ lastStore' = [lastStore EXCEPT ![k] = me.store]
    /\ last' = [GetCall(me.reg, me.store, me.name) EXCEPT
                    !.req = me.req, !.s = me.s, !.e = me.e, !.out = "return",
                    !.new = me.new]
    /\ threads' = [threads EXCEPT ![t] = Idle]
    /\ UNCHANGED <<requests, stores, contextOf, registries, newLog>>

\* ----------------------------------------------------------- Registry.Save
\* The orders in which `range` may visit the keys of a map: each key once.
Orders(S) ==
    {o \in [1..Cardinality(S) -> S] : \A x \in S : \E i \in DOMAIN o : o[i] = x}

MissingStore(name) == [kind |-> "missing store", name |-> name, cause |-> NoErr]
ErrorSaving(name, err) == [kind |-> "error saving", name |-> name, cause |-> err]

NoSave == [visited |-> <<>>, calls |-> <<>>, errs |-> <<>>]

SaveVisitChecksCreation(acc, name, info, h, failing) ==
    LET session == h[info.s]
        seen == [acc EXCEPT !.visited = Append(@, name)]
        err == IF info.s \in failing THEN ErrSave ELSE NoErr
        called == [seen EXCEPT !.calls =
                      Append(@, [store |-> session.store, s |-> info.s, err |-> err])]
    IN
    IF info.e # NoErr THEN
        [seen EXCEPT !.errs = Append(@, ErrorSaving(name, info.e))]
    ELSE IF session.store = NilStore THEN
        [seen EXCEPT !.errs = Append(@, MissingStore(name))]
    ELSE IF err # NoErr THEN
        [called EXCEPT !.errs = Append(@, ErrorSaving(name, err))]
    ELSE called

SaveVisitSkipMissing(acc, name, info, h, failing) ==
    LET session == h[info.s]
        seen == [acc EXCEPT !.visited = Append(@, name)]
        err == IF info.s \in failing THEN ErrSave ELSE NoErr
        called == [seen EXCEPT !.calls =
                      Append(@, [store |-> session.store, s |-> info.s, err |-> err])]
    IN
    IF session.store = NilStore THEN seen
    ELSE IF err # NoErr THEN
        [called EXCEPT !.errs = Append(@, ErrorSaving(name, err))]
    ELSE called

SaveVisitStopAtError(acc, name, info, h, failing) ==
    LET session == h[info.s]
        seen == [acc EXCEPT !.visited = Append(@, name)]
        err == IF info.s \in failing THEN ErrSave ELSE NoErr
        called == [seen EXCEPT !.calls =
                      Append(@, [store |-> session.store, s |-> info.s, err |-> err])]
    IN
    IF acc.errs # <<>> THEN acc
    ELSE IF session.store = NilStore THEN
        [seen EXCEPT !.errs = Append(@, MissingStore(name))]
    ELSE IF err # NoErr THEN
        [called EXCEPT !.errs = Append(@, ErrorSaving(name, err))]
    ELSE called

\* The body of the loop for one (name, info) pair; `failing` are the sessions
\* whose store.Save returns an error in this call.
SaveVisit(acc, name, info, h, failing) ==
    LET session == h[info.s]
        seen == [acc EXCEPT !.visited = Append(@, name)]
        err == IF info.s \in failing THEN ErrSave ELSE NoErr
        called == [seen EXCEPT !.calls =
                      Append(@, [store |-> session.store, s |-> info.s, err |-> err])]
    IN
    IF session.store = NilStore THEN
        [seen EXCEPT !.errs = Append(@, MissingStore(name))]
    ELSE IF err # NoErr THEN
        [called EXCEPT !.errs = Append(@, ErrorSaving(name, err))]
    ELSE called

RECURSIVE RangeSessions(_, _, _, _, _, _)
\* for name, info := range s.sessions
RangeSessions(sessions, h, order, failing, i, acc) ==
    IF i > Len(order) THEN acc
    ELSE RangeSessions(sessions, h, order, failing, i + 1,
                       SaveVisit(acc, order[i], sessions[order[i]], h, failing))

SaveResultAlwaysMultiError(errMulti) == "MultiError"

\* if errMulti != nil { return errMulti }; return nil
SaveResult(errMulti) == IF errMulti # <<>> THEN "MultiError" ELSE "nil"

\* The sessions a Save of registry reg ranges over.
SessionsOf(reg) == IF reg = NilRegistry THEN EmptySessions ELSE registries[reg].sessions

SavedSessions(reg) == {SessionsOf(reg)[n].s : n \in DOMAIN SessionsOf(reg)}

SaveOutcomeNilReceiver(reg, order, failing) ==
    LET acc == RangeSessions(SessionsOf(reg), heap, order, failing, 1, NoSave) IN
    [NoCall EXCEPT !.op = "Save", !.reg = reg, !.visited = acc.visited,
                   !.calls = acc.calls, !.errs = acc.errs,
                   !.out = SaveResult(acc.errs)]

\* (s *Registry).Save(w): the call and its outcome.
SaveOutcome(reg, order, failing) ==
    IF reg = NilRegistry THEN
        \* s.sessions on a nil *Registry
        [NoCall EXCEPT !.op = "Save", !.reg = reg, !.out = "panic"]
    ELSE
        LET acc == RangeSessions(registries[reg].sessions, heap, order, failing, 1, NoSave) IN
        [NoCall EXCEPT !.op = "Save", !.reg = reg, !.visited = acc.visited,
                       !.calls = acc.calls, !.errs = acc.errs,
                       !.out = SaveResult(acc.errs)]

\* Whether the call before this one was a Save of the same registry that
\* persisted sessions, all of them without an error.
SavedBefore(reg) ==
    /\ last.op \in {"Save", "SaveRequest"}
    /\ last.out = "nil"
    /\ last.reg = reg
    /\ last.calls # <<>>

\* registry.Save(w) on a registry a caller holds.
RegistrySave(reg) ==
    /\ reg \in 1..Len(registries)
    /\ \E order \in Orders(DOMAIN SessionsOf(reg)), failing \in SUBSET SavedSessions(reg) :
           last' = [SaveOutcome(reg, order, failing) EXCEPT !.again = SavedBefore(reg)]
    /\ UNCHANGED <<threads, requests, stores, contextOf, registries, heap, newLog, got, lastStore>>

\* Save(r, w) == RegistryFromContext(r.Context()).Save(w)
Save(r) ==
    LET reg == RegistryFromContext(contextOf[r]) IN
    /\ \E order \in Orders(DOMAIN SessionsOf(reg)), failing \in SUBSET SavedSessions(reg) :
           last' = [SaveOutcome(reg, order, failing) EXCEPT !.op = "SaveRequest",
                                                            !.ctx = contextOf[r],
                                                            !.req = r,
                                                            !.again = SavedBefore(reg)]
    /\ UNCHANGED <<threads, requests, stores, contextOf, registries, heap, newLog, got, lastStore>>

\* ----------------------------------------------------------- specification
Next ==
    \/ \E r \in requests : ForeignWithValue(r)
    \/ \E r \in requests, q \in Requests : ContextWithRegistry(r, q)
    \/ \E r \in requests : Lookup(r)
    \/ \E r \in requests, store \in stores \cup {NilStore}, name \in Names :
           Get(r, store, name)
    \/ \E reg \in RegistryIds : RegistrySave(reg)
    \/ \E r \in requests : Save(r)

Spec == Init /\ [][Next]_vars

\* The same program with a store among the callers' whose New returns a nil
\* session.
InitAnyStore ==
    /\ requests = {"req1"}
    /\ stores = {"storeA", EmptyStore}
    /\ contextOf = [r \in Requests |-> Background]
    /\ registries = <<>>
    /\ heap = <<>>
    /\ newLog = [k \in Keys |-> <<>>]
    /\ got = [k \in Keys |-> {}]
    /\ lastStore = [k \in Keys |-> "none"]
    /\ last = NoCall
    /\ threads = [t \in Threads |-> Idle]

SpecAnyStore == InitAnyStore /\ [][Next]_vars

\* Two requests in flight, each attaching a Registry for itself.
InitIsolation ==
    /\ requests = Requests
    /\ stores = {"storeA"}
    /\ contextOf = [r \in Requests |-> Background]
    /\ registries = <<>>
    /\ heap = <<>>
    /\ newLog = [k \in Keys |-> <<>>]
    /\ got = [k \in Keys |-> {}]
    /\ lastStore = [k \in Keys |-> "none"]
    /\ last = NoCall
    /\ threads = [t \in Threads |-> Idle]

NextIsolation ==
    \/ \E r \in requests : ContextWithRegistry(r, r)
    \/ \E r \in requests, store \in stores \cup {NilStore}, name \in Names :
           Get(r, store, name)
    \/ \E reg \in RegistryIds : RegistrySave(reg)
    \/ \E r \in requests : Save(r)

SpecIsolation == InitIsolation /\ [][NextIsolation]_vars

\* One request whose handlers call Get from two goroutines.
InitConcurrent ==
    /\ requests = {"req1"}
    /\ stores = {"storeA"}
    /\ contextOf = [r \in Requests |-> Background]
    /\ registries = <<>>
    /\ heap = <<>>
    /\ newLog = [k \in Keys |-> <<>>]
    /\ got = [k \in Keys |-> {}]
    /\ lastStore = [k \in Keys |-> "none"]
    /\ last = NoCall
    /\ threads = [t \in Threads |-> Idle]

\* The names the two goroutines ask for: one valid name, so that their Gets
\* meet on it, and the invalid one.
ContendedNames == {<<"a">>} \cup InvalidNames

NextConcurrent ==
    /\ Alive
    /\ \/ \E r \in requests : ContextWithRegistry(r, r)
       \/ \E t \in Threads, r \in requests, store \in stores \cup {NilStore},
              name \in ContendedNames :
              GetBegin(t, r, store, name)
       \/ \E t \in Threads : GetNew(t)
       \/ \E t \in Threads : GetRecord(t)
       \/ \E t \in Threads : GetRecordRace(t)
       \/ \E t \in Threads : GetFinish(t)
       \/ \E reg \in RegistryIds : RegistrySave(reg)

SpecConcurrent == InitConcurrent /\ [][NextConcurrent]_vars

\* RegistryFromContext as a function of its argument: the request's context
\* is any context of at most MaxCtxDepth pairs.
CtxKeys == {registryKey, ForeignKey}
CtxValues == {RegistryPtr(NilRegistry), RegistryPtr(1), ForeignValue, NilValue}
CtxPairs == [key : CtxKeys, val : CtxValues]
Contexts == UNION {[1..n -> CtxPairs] : n \in 0..MaxCtxDepth}

InitLookup ==
    /\ requests = {"req1"}
    /\ stores = ContractStores
    /\ \E c \in Contexts : contextOf = [r \in Requests |-> IF r = "req1" THEN c ELSE Background]
    /\ registries = <<NewRegistry("req1")>>
    /\ heap = <<>>
    /\ newLog = [k \in Keys |-> <<>>]
    /\ got = [k \in Keys |-> {}]
    /\ lastStore = [k \in Keys |-> "none"]
    /\ last = NoCall
    /\ threads = [t \in Threads |-> Idle]

NextLookup == \E r \in requests : Lookup(r)

SpecLookup == InitLookup /\ [][NextLookup]_vars

\* ------------------------------------------------------------------ claims
SessionsIn(reg) == registries[reg].sessions
Pair(entry) == [s |-> entry.s, e |-> entry.e]
LastIsGetFor(k) ==
    last.op = "Get" /\ last.out = "return" /\ last.reg = k[1] /\ last.name = k[2]
LastIsSave == last.op \in {"Save", "SaveRequest"} /\ last.out # "panic"
CallsFor(session) == {i \in DOMAIN last.calls : last.calls[i].s = session}

\* C1: on one registry, all the Get calls for a valid name return the
\* identical session (and error), and Store.New is invoked at most once per
\* name.
C1_GetMemoized ==
    \A k \in Keys : Cardinality(got[k]) <= 1 /\ Len(newLog[k]) <= 1

\* A Get that was not the creating one has returned: it named another store
\* than the one New was invoked on.
C1_Witness ==
    \E k \in Keys :
        /\ LastIsGetFor(k)
        /\ Len(newLog[k]) = 1
        /\ last.store \in ContractStores
        /\ last.store # newLog[k][1].store
        /\ last.s = newLog[k][1].s

\* C2: when New returned an error together with a session, every Get for
\* that name returns that error and that session, and New is not invoked a
\* second time.
C2_FailureCached ==
    \A k \in Keys :
        (newLog[k] # <<>> /\ newLog[k][1].e # NoErr /\ newLog[k][1].s # NilSession)
            => (got[k] = {Pair(newLog[k][1])} /\ Len(newLog[k]) = 1)

C2_Witness ==
    \E k \in Keys :
        /\ LastIsGetFor(k)
        /\ Len(newLog[k]) = 1
        /\ newLog[k][1].e # NoErr
        /\ last.store # newLog[k][1].store
        /\ last.e = newLog[k][1].e

\* C3: a Get with a name that fails validation returns an error and no
\* session, invokes no New, and leaves the mapping and every session's store
\* as they were.
C3_InvalidNameRejected ==
    [][(last'.op = "Get" /\ ~isCookieNameValid(last'.name))
           => (/\ last'.out = "return"
               /\ last'.e = ErrInvalidName
               /\ last'.s = NilSession
               /\ UNCHANGED <<registries, heap, newLog>>)]_vars

C3_Witness ==
    /\ last.op = "Get"
    /\ ~isCookieNameValid(last.name)
    /\ last.store \in ContractStores
    /\ last.reg # NilRegistry
    /\ DOMAIN SessionsIn(last.reg) # {}

\* C4: after Gets for a name with several stores, a Save persists the
\* session once, through the store of the latest Get and no other, and the
\* memoized session and error are still those of the first Get.
C4_SaveThroughLatestStore ==
    LastIsSave =>
        \A n \in DOMAIN SessionsIn(last.reg) :
            LET k == <<last.reg, n>> IN
            /\ newLog[k] # <<>>
            /\ SessionsIn(last.reg)[n] = Pair(newLog[k][1])
            /\ lastStore[k] \in stores =>
                   /\ Cardinality(CallsFor(newLog[k][1].s)) = 1
                   /\ \A i \in CallsFor(newLog[k][1].s) :
                          last.calls[i].store = lastStore[k]

C4_Witness ==
    /\ LastIsSave
    /\ \E n \in DOMAIN SessionsIn(last.reg) :
           LET k == <<last.reg, n>> IN
           /\ lastStore[k] \in ContractStores
           /\ lastStore[k] # newLog[k][1].store
           /\ \E i \in DOMAIN last.calls :
                  last.calls[i].s = newLog[k][1].s /\ last.calls[i].store = lastStore[k]

\* C5: one Save visits every pair of the mapping exactly once and invokes
\* the store's Save once for every session that has a store, however many
\* pairs before it failed.
C5_SaveBestEffort ==
    LastIsSave =>
        LET sessions == SessionsIn(last.reg) IN
        /\ Len(last.visited) = Cardinality(DOMAIN sessions)
        /\ {last.visited[i] : i \in DOMAIN last.visited} = DOMAIN sessions
        /\ \A n \in DOMAIN sessions :
               Cardinality(CallsFor(sessions[n].s)) =
                   IF heap[sessions[n].s].store = NilStore THEN 0 ELSE 1

\* The first pair visited failed and the second was persisted all the same.
C5_Witness ==
    /\ LastIsSave
    /\ Len(last.visited) = 2
    /\ last.errs # <<>>
    /\ last.errs[1].name = last.visited[1]
    /\ \E i \in DOMAIN last.calls :
           /\ last.calls[i].s = SessionsIn(last.reg)[last.visited[2]].s
           /\ last.calls[i].err = NoErr

\* The failure Save has to report for one pair: none, a missing store, or
\* the error the store's Save returned.
PairFailure(reg, name) ==
    LET session == SessionsIn(reg)[name].s IN
    IF heap[session].store = NilStore THEN <<MissingStore(name)>>
    ELSE IF \E i \in CallsFor(session) : last.calls[i].err # NoErr
    THEN <<ErrorSaving(name, ErrSave)>>
    ELSE <<>>

RECURSIVE FailuresFrom(_, _)
FailuresFrom(reg, i) ==
    IF i > Len(last.visited) THEN <<>>
    ELSE PairFailure(reg, last.visited[i]) \o FailuresFrom(reg, i + 1)

\* C6: Save returns nil exactly when no pair failed (an empty mapping
\* included); otherwise it returns a MultiError holding one error for each
\* failing pair, naming its session, in the order the pairs were visited, and
\* none for a pair that succeeded.
C6_SaveResult ==
    LastIsSave =>
        /\ last.errs = FailuresFrom(last.reg, 1)
        /\ last.out = (IF FailuresFrom(last.reg, 1) = <<>> THEN "nil" ELSE "MultiError")

\* Of two pairs the first succeeded and the second failed.
C6_Witness ==
    /\ LastIsSave
    /\ last.out = "MultiError"
    /\ Len(last.visited) = 2
    /\ Len(last.errs) = 1
    /\ last.errs[1].name = last.visited[2]

\* C7: ContextWithRegistry on a context that carries a Registry returns that
\* context and makes no Registry: the context's Registry, its request and its
\* sessions stay as they were.
C7_AttachIdempotent ==
    [][(last'.op = "ContextWithRegistry" /\ RegistryFromContext(last'.ctx) # NilRegistry)
           => (/\ last'.newctx = last'.ctx
               /\ RegistryFromContext(last'.newctx) = RegistryFromContext(last'.ctx)
               /\ UNCHANGED <<registries, contextOf>>)]_vars

\* A second attachment, with another request, on a context whose Registry
\* holds a session.
C7_Witness ==
    /\ last.op = "ContextWithRegistry"
    /\ RegistryFromContext(last.ctx) # NilRegistry
    /\ last.req # registries[RegistryFromContext(last.ctx)].request
    /\ DOMAIN SessionsIn(RegistryFromContext(last.ctx)) # {}

\* C8: Save(r, w) on a request whose context carries no Registry does not
\* return: it panics, so it returns neither nil nor a MultiError.
C8_SaveWithoutRegistryFails ==
    (last.op = "SaveRequest" /\ RegistryFromContext(last.ctx) = NilRegistry)
        => last.out = "panic"

C8_Witness ==
    /\ last.op = "SaveRequest"
    /\ RegistryFromContext(last.ctx) = NilRegistry
    /\ last.out \notin {"nil", "MultiError"}

\* The positions of a context that hold the registry key.
RegistryPairs(c) == {i \in DOMAIN c : c[i].key = registryKey}
Innermost(c) == CHOOSE i \in RegistryPairs(c) : \A j \in RegistryPairs(c) : j <= i

\* C9: RegistryFromContext returns the Registry the context carries under
\* the registry key, and nil, without a panic, when the key is missing or its
\* value is no *Registry; the context is left as it was.
C9_LookupTotal ==
    [][last'.op = "RegistryFromContext"
           => (/\ last'.out = "return"
               /\ last'.reg =
                      (IF RegistryPairs(last'.ctx) = {} THEN NilRegistry
                       ELSE IF last'.ctx[Innermost(last'.ctx)].val.type = "*Registry"
                       THEN last'.ctx[Innermost(last'.ctx)].val.ptr
                       ELSE NilRegistry)
               /\ UNCHANGED contextOf)]_vars

\* The lookup of a context whose registry key holds a value of another type.
C9_Witness ==
    /\ last.op = "RegistryFromContext"
    /\ RegistryPairs(last.ctx) # {}
    /\ last.ctx[Innermost(last.ctx)].val.type = "int"
    /\ last.reg = NilRegistry

\* C10 as claimed: whatever pair New returns on the first Get for a name,
\* a nil session with an error included, is recorded for the name and
\* returned by Get.
C10_Original ==
    \A k \in Keys :
        newLog[k] # <<>> =>
            /\ k[2] \in DOMAIN SessionsIn(k[1])
            /\ SessionsIn(k[1])[k[2]] = Pair(newLog[k][1])
            /\ Pair(newLog[k][1]) \in got[k]

\* C10, amended: a pair New returns with a session in it, with or without an
\* error, is recorded for the name and returned by Get; when New returns a
\* nil session Get panics, and nothing is recorded or returned for the name.
C10_CreationRecorded ==
    \A k \in Keys :
        /\ \A i \in DOMAIN newLog[k] :
               newLog[k][i].s # NilSession =>
                   /\ k[2] \in DOMAIN SessionsIn(k[1])
                   /\ SessionsIn(k[1])[k[2]] = Pair(newLog[k][i])
                   /\ got[k] = {Pair(newLog[k][i])}
        /\ (\A i \in DOMAIN newLog[k] : newLog[k][i].s = NilSession) =>
               /\ got[k] = {}
               /\ k[1] \in DOMAIN registries => k[2] \notin DOMAIN SessionsIn(k[1])
        /\ (last.op = "Get" /\ last.reg = k[1] /\ last.name = k[2] /\ newLog[k] # <<>>
               /\ newLog[k][Len(newLog[k])].s = NilSession)
               => last.out = "panic"

\* After a creation that returned a nil session, a creation that returned a
\* session together with an error.
C10_Witness ==
    \E k \in Keys :
        /\ LastIsGetFor(k)
        /\ Len(newLog[k]) = 2
        /\ newLog[k][1].s = NilSession
        /\ newLog[k][2].e # NoErr
        /\ last.s = newLog[k][2].s
        /\ last.e = newLog[k][2].e

MissingStoreErrors == {i \in DOMAIN last.errs : last.errs[i].kind = "missing store"}

\* C11: a session of the mapping has an empty store exactly when the latest
\* Get for its name passed an empty store, so after Gets that all pass a
\* store every session has one, and Save records a missing-store error only
\* for a name whose latest Get passed an empty store.
C11_StoreSetByGet ==
    /\ \A reg \in DOMAIN registries : \A n \in DOMAIN SessionsIn(reg) :
           /\ lastStore[<<reg, n>>] # "none"
           /\ heap[SessionsIn(reg)[n].s].store = lastStore[<<reg, n>>]
    /\ LastIsSave =>
           \A i \in MissingStoreErrors :
               lastStore[<<last.reg, last.errs[i].name>>] = NilStore

\* A Save met a session whose store a Get had made empty, beside one that
\* kept its store.
C11_Witness ==
    /\ LastIsSave
    /\ MissingStoreErrors # {}
    /\ last.calls # <<>>

\* C12: for a pair whose session has an empty store, Save records one
\* missing-store error naming it, does not invoke any store's Save for it, and
\* goes on to the pairs that remain.
C12_MissingStoreRecorded ==
    LastIsSave =>
        \A n \in DOMAIN SessionsIn(last.reg) :
            heap[SessionsIn(last.reg)[n].s].store = NilStore =>
                /\ Cardinality({i \in MissingStoreErrors : last.errs[i].name = n}) = 1
                /\ CallsFor(SessionsIn(last.reg)[n].s) = {}
                /\ \A m \in DOMAIN SessionsIn(last.reg) :
                       /\ \E i \in DOMAIN last.visited : last.visited[i] = m
                       /\ heap[SessionsIn(last.reg)[m].s].store # NilStore
                              => CallsFor(SessionsIn(last.reg)[m].s) # {}

\* The first pair visited had no store and the second was persisted.
C12_Witness ==
    /\ LastIsSave
    /\ Len(last.visited) = 2
    /\ last.errs # <<>>
    /\ last.errs[1] = MissingStore(last.visited[1])
    /\ CallsFor(SessionsIn(last.reg)[last.visited[2]].s) # {}

\* C13: a Get that creates a session leaves the session's name equal to the
\* name it was asked for, whatever name the store's New had put in it, so the
\* session under key n of a mapping has the name n.
C13_NameIsKey ==
    /\ \A reg \in DOMAIN registries : \A n \in DOMAIN SessionsIn(reg) :
           heap[SessionsIn(reg)[n].s].name = n
    /\ (last.op = "Get" /\ last.new # <<>>) => heap[last.s].name = last.name

\* The store's New had left another name in the session it made.
C13_Witness ==
    /\ last.op = "Get"
    /\ last.new # <<>>
    /\ last.new[1].name # last.name
    /\ heap[last.s].name = last.name
    /\ SessionsIn(last.reg)[last.name].s = last.s

\* C14: no call removes or replaces an entry of a mapping; a Save leaves the
\* mappings and the sessions as they were, and a Save that follows a Save
\* invokes the store's Save again for every session the first one persisted.
C14_MappingOnlyGrows ==
    [][/\ \A reg \in DOMAIN registries :
              /\ reg \in DOMAIN registries'
              /\ \A n \in DOMAIN SessionsIn(reg) :
                     /\ n \in DOMAIN registries'[reg].sessions
                     /\ registries'[reg].sessions[n] = SessionsIn(reg)[n]
       /\ last'.op \in {"Save", "SaveRequest"} =>
              /\ UNCHANGED <<registries, heap>>
              /\ last'.again =>
                     \A i \in DOMAIN last.calls :
                         \E j \in DOMAIN last'.calls : last'.calls[j].s = last.calls[i].s
      ]_vars

\* A Save right after a Save that had persisted both sessions of the mapping
\* persists both again.
C14_Witness ==
    /\ LastIsSave
    /\ last.again
    /\ Cardinality(DOMAIN SessionsIn(last.reg)) = 2
    /\ Len(last.calls) = 2

\* C15: Save does not read the memoized creation error: a session whose
\* creation returned an error is in the mapping and is passed to its store's
\* Save like any other, and Save's result holds no creation error and no
\* error for that session unless its store is missing or its store's Save
\* failed.
C15_CreationErrorIgnoredBySave ==
    /\ \A k \in Keys :
           (newLog[k] # <<>> /\ newLog[k][1].s # NilSession /\ newLog[k][1].e # NoErr)
               => (k[2] \in DOMAIN SessionsIn(k[1])
                      /\ SessionsIn(k[1])[k[2]].e = newLog[k][1].e)
    /\ LastIsSave =>
           /\ \A i \in DOMAIN last.errs : last.errs[i].cause \in {NoErr, ErrSave}
           /\ \A n \in DOMAIN SessionsIn(last.reg) :
                  LET info == SessionsIn(last.reg)[n] IN
                  (info.e # NoErr /\ heap[info.s].store # NilStore) =>
                      /\ Cardinality(CallsFor(info.s)) = 1
                      /\ (\A i \in CallsFor(info.s) : last.calls[i].err = NoErr)
                             => \A j \in DOMAIN last.errs : last.errs[j].name # n

\* A Save persisted a session whose creation had returned an error, and
\* returned nil.
C15_Witness ==
    /\ LastIsSave
    /\ last.out = "nil"
    /\ \E n \in DOMAIN SessionsIn(last.reg) :
           /\ SessionsIn(last.reg)[n].e # NoErr
           /\ CallsFor(SessionsIn(last.reg)[n].s) # {}

\* The Registry a context carries.
Attached(c) == IF RegistryPairs(c) = {} THEN NilRegistry ELSE c[Innermost(c)].val.ptr

SessionsHeld(regs, reg) == {regs[reg].sessions[n].s : n \in DOMAIN regs[reg].sessions}

\* C16: a Get or a Save made for a request adds, changes and persists
\* nothing of a Registry attached to another request's context; a Save of one
\* Registry persists that Registry's sessions only; and two Registries hold
\* no session in common, the same name being created on each.
C16_RegistriesIsolated ==
    [][/\ \A r \in requests :
              (last'.req = r /\ last'.op \in {"Get", "SaveRequest"}) =>
                  \A reg \in DOMAIN registries :
                      reg # Attached(contextOf[r]) =>
                          /\ registries'[reg] = registries[reg]
                          /\ \A n \in Names :
                                 /\ newLog'[<<reg, n>>] = newLog[<<reg, n>>]
                                 /\ got'[<<reg, n>>] = got[<<reg, n>>]
                                 /\ lastStore'[<<reg, n>>] = lastStore[<<reg, n>>]
                          /\ \A s \in SessionsHeld(registries, reg) :
                                 /\ heap'[s] = heap[s]
                                 /\ \A j \in DOMAIN last'.calls : last'.calls[j].s # s
       /\ (last'.op \in {"Save", "SaveRequest"} /\ last'.out # "panic") =>
              \A j \in DOMAIN last'.calls :
                  last'.calls[j].s \in SessionsHeld(registries', last'.reg)
       /\ \A reg1, reg2 \in DOMAIN registries' :
              reg1 # reg2 =>
                  SessionsHeld(registries', reg1) \cap SessionsHeld(registries', reg2) = {}
      ]_vars

\* Both Registries hold a session for the same name, each its own, and a
\* Save for one request has persisted that request's session.
C16_Witness ==
    /\ last.op = "SaveRequest"
    /\ last.out = "nil"
    /\ Len(registries) = 2
    /\ \E n \in ValidNames :
           /\ n \in DOMAIN SessionsIn(1) /\ n \in DOMAIN SessionsIn(2)
           /\ SessionsIn(1)[n].s # SessionsIn(2)[n].s
           /\ Len(newLog[<<1, n>>]) = 1 /\ Len(newLog[<<2, n>>]) = 1
           /\ Len(last.calls) = 1
           /\ last.calls[1].s = SessionsIn(last.reg)[n].s

CreatedIn(log, k) == {Pair(log[k][i]) : i \in DOMAIN log[k]}

\* C17: with Gets of several goroutines interleaved on one Registry, New may
\* be invoked more than once for a name and the callers may be given different
\* sessions; the mapping still holds one created pair for the name, every
\* caller is given a created pair, and a Save persists the sessions the
\* mapping holds when it runs and no other.
C17_InterleavedGetKeepsOne ==
    [][/\ \A k \in Keys :
              /\ got'[k] \subseteq CreatedIn(newLog', k)
              /\ (k[1] \in DOMAIN registries' /\ k[2] \in DOMAIN registries'[k[1]].sessions)
                     => registries'[k[1]].sessions[k[2]] \in CreatedIn(newLog', k)
       /\ (last'.op = "Save" /\ last'.out # "panic" /\ last' # last) =>
              /\ \A j \in DOMAIN last'.calls :
                     last'.calls[j].s \in SessionsHeld(registries', last'.reg)
              /\ Len(last'.calls) <= Cardinality(DOMAIN registries'[last'.reg].sessions)
      ]_vars

\* Two interleaved Gets for one name have returned: New was invoked twice,
\* the callers hold different sessions, and a Save has persisted the one
\* session the mapping holds.
C17_Witness ==
    /\ LastIsSave
    /\ Alive
    /\ \A t \in Threads : threads[t].pc = "idle"
    /\ \E k \in Keys :
           /\ k[1] = last.reg
           /\ Len(newLog[k]) = 2
           /\ Cardinality({p.s : p \in got[k]}) = 2
           /\ DOMAIN SessionsIn(last.reg) = {k[2]}
           /\ Len(last.calls) = 1
           /\ last.calls[1].s = SessionsIn(last.reg)[k[2]].s
           /\ \E p \in got[k] : \A j \in DOMAIN last.calls : last.calls[j].s # p.s

====
